---- MODULE Spec2Model ----
(***************************************************************************)
(* Model of fifodev.c: a FIFO character device built from a kfifo, one     *)
(* semaphore used as a mutex (mtx), two semaphores used as wait queues     *)
(* (sem_prod, sem_cons) and hand-kept waiter counters.                     *)
(*                                                                         *)
(* Granularity: every C statement that touches shared state is one step.   *)
(* kfifo_in and kfifo_out are two steps each, as in lib/kfifo.c: the       *)
(* length is computed from the indices and the bytes copied, then the      *)
(* index is advanced.  down_interruptible(s) takes s when s > 0; when      *)
(* s = 0 the caller sleeps and a signal makes the call fail with -EINTR.   *)
(***************************************************************************)
EXTENDS Integers, Sequences, FiniteSets, TLC

\* ------------------------------------------------------------- bounds
\* Size of the circular buffer and of one write (4096 in the source).
MAX_CBUFFER_LEN == 2
MAX_KBUF == MAX_CBUFFER_LEN
\* kfifo indices are free-running unsigned integers; the buffer size divides
\* their modulus (2^32 in the kernel).
IdxMod == 4 * MAX_CBUFFER_LEN
\* Bytes one producer thread passes to write over a whole run.
MaxBytes == 3
\* Signals delivered to sleeping threads over a whole run.
MaxIntr == 1
\* Calls user space makes over a whole run.
MaxCalls == 7

\* errno values
EINTR == 4
ENOMEM == 12
EPIPE == 32

Producers == {"p1", "p2"}
Consumers == {"c1"}
Threads == Producers \cup Consumers

VARIABLES
  cbuffer,          \* struct kfifo: [in, out, data]
  prod_count, cons_count,
  mtx, sem_prod, sem_cons,
  nr_prod_waiting, nr_cons_waiting,
  pc,               \* per thread: the statement it is about to execute
  op,               \* per thread: the file operation it is in (or was last in)
  f_open,           \* per thread: it holds an open file of the device
  size,             \* per thread: the size argument of read/write
  kbuffer,          \* per thread: the local kbuffer[] of read/write
  len,              \* per thread: the local length of kfifo_in/kfifo_out
  snap,             \* per thread: what the call found when it took mtx (see Snap)
  last,             \* the call that returned in the step just taken
  sent,             \* per producer: bytes passed to write so far
  readlog,          \* bytes returned by read calls, in order of return
  wlog,             \* bytes of write calls that returned their size
  nintr,            \* signals delivered so far
  ncalls,           \* calls made so far
  closed,           \* close() has been called
  stale,            \* the bytes queued when a close left both counts 0
  blocks,           \* the byte sequences passed to write so far
  multi             \* prod_count or cons_count has been above 1

shared == <<cbuffer, prod_count, cons_count, mtx, sem_prod, sem_cons,
            nr_prod_waiting, nr_cons_waiting>>
locals == <<pc, op, f_open, size, kbuffer, len, snap, last>>
ghost == <<sent, readlog, wlog, nintr, ncalls, closed, stale, blocks, multi>>
vars == <<shared, locals, ghost>>

\* ------------------------------------------------------------- helpers
Min(a, b) == IF a <= b THEN a ELSE b

\* f->f_mode & FMODE_READ selects the consumer branch
isProducer(t) == t \in Producers

\* The k-th byte thread t passes to write
Byte(t, k) == (IF t = "p1" THEN 10 ELSE 20) + k

kfifo_len(f) == (f.in - f.out) % IdxMod
kfifo_avail(f) == (MAX_CBUFFER_LEN - kfifo_len(f)) % IdxMod
kfifo_is_empty(f) == f.in = f.out

\* kfifo_in, first half: clamp to the unused space, copy the bytes in
kfifo_in_len(f, n) == Min(n, kfifo_avail(f))
kfifo_copy_in(f, buf, n) ==
  [f EXCEPT !.data = [i \in 0 .. MAX_CBUFFER_LEN - 1 |->
     LET hit == {j \in 1 .. n : (f.in + j - 1) % MAX_CBUFFER_LEN = i}
     IN IF hit = {} THEN f.data[i]
        ELSE buf[CHOOSE j \in hit : \A k \in hit : k <= j]]]
\* kfifo_in, second half: fifo->in += len
kfifo_add_in(f, n) == [f EXCEPT !.in = (f.in + n) % IdxMod]

\* a kfifo_out that forgets to advance out (a fault the FIFO claim must catch)
kfifo_add_out_mut(f, n) == f

\* kfifo_out, first half: clamp to the used space, copy the bytes out
kfifo_out_len(f, n) == Min(n, kfifo_len(f))
kfifo_copy_out(f, n) ==
  [j \in 1 .. n |-> f.data[(f.out + j - 1) % MAX_CBUFFER_LEN]]
\* kfifo_out, second half: fifo->out += len
\* (the indices are kept reduced by the same multiple of the buffer size, which
\* changes neither their difference nor the cells they name)
kfifo_add_out(f, n) ==
  LET o == f.out + n
      k == o - (o % MAX_CBUFFER_LEN)
  IN [f EXCEPT !.out = o - k, !.in = (f.in - k) % IdxMod]

kfifo_reset(f) == [f EXCEPT !.in = 0, !.out = 0]

\* the bytes queued in the buffer, oldest first
Queued(f) == [j \in 1 .. kfifo_len(f) |-> f.data[(f.out + j - 1) % MAX_CBUFFER_LEN]]
Range(q) == {q[j] : j \in 1 .. Len(q)}

\* the waiter counter and the semaphore of a role
Waiting(prod) == IF prod THEN nr_prod_waiting ELSE nr_cons_waiting
Aux(prod) == IF prod THEN sem_prod ELSE sem_cons
SetWaiting(prod, v) ==
  IF prod THEN nr_prod_waiting' = v /\ UNCHANGED nr_cons_waiting
          ELSE nr_cons_waiting' = v /\ UNCHANGED nr_prod_waiting
SetAux(prod, v) ==
  IF prod THEN sem_prod' = v /\ UNCHANGED sem_cons
          ELSE sem_cons' = v /\ UNCHANGED sem_prod

\* no call returns in this step
NoReturn == [t |-> "none", op |-> "none", ret |-> 0, snap |-> 0]

\* What a call finds at its head: open, the count of its own role; read, once it
\* has mtx, whether the buffer is empty with no producer; write, once it has mtx,
\* whether there is no consumer (1), or a consumer and an empty buffer (2).
\* (For release, snap is set at its decrement: whether it left both counts 0.)
Snap(t, o) ==
  CASE o = "open" -> IF isProducer(t) THEN prod_count ELSE cons_count
    [] o = "read" -> IF kfifo_is_empty(cbuffer) /\ prod_count = 0 THEN 1 ELSE 0
    [] o = "write" -> IF cons_count = 0 THEN 1
                      ELSE IF kfifo_is_empty(cbuffer) THEN 2 ELSE 0
    [] o = "release" -> 0

Goto(t, l) ==
  /\ pc' = [pc EXCEPT ![t] = l]
  /\ last' = NoReturn

\* the call returns v to user space
Return(t, v) ==
  /\ pc' = [pc EXCEPT ![t] = "idle"]
  /\ op' = [op EXCEPT ![t] = "none"]
  /\ size' = [size EXCEPT ![t] = 0]
  /\ kbuffer' = [kbuffer EXCEPT ![t] = <<>>]
  /\ len' = [len EXCEPT ![t] = 0]
  /\ snap' = [snap EXCEPT ![t] = 0]
  /\ last' = [t |-> t, op |-> op[t], ret |-> v, snap |-> snap[t]]

\* where cond_wait's caller continues: the head of its while loop
LoopPc(t) == CASE op[t] = "open" -> "open_loop"
               [] op[t] = "read" -> "read_loop"
               [] op[t] = "write" -> "write_loop"

\* where the code continues after its cond_signal block
AfterSignal(t) == CASE op[t] = "open" -> "open_loop"
                    [] op[t] = "release" -> "rel_chkreset"
                    [] op[t] = "read" -> "read_unlock"
                    [] op[t] = "write" -> "write_unlock"

\* ------------------------------------------------------------- Init
Init ==
  /\ cbuffer = [in |-> 0, out |-> 0, data |-> [i \in 0 .. MAX_CBUFFER_LEN - 1 |-> 0]]
  /\ prod_count = 0 /\ cons_count = 0
  /\ mtx = 1 /\ sem_prod = 0 /\ sem_cons = 0
  /\ nr_prod_waiting = 0 /\ nr_cons_waiting = 0
  /\ pc = [t \in Threads |-> "idle"]
  /\ op = [t \in Threads |-> "none"]
  /\ f_open = [t \in Threads |-> FALSE]
  /\ size = [t \in Threads |-> 0]
  /\ kbuffer = [t \in Threads |-> <<>>]
  /\ len = [t \in Threads |-> 0]
  /\ snap = [t \in Threads |-> 0]
  /\ last = NoReturn
  /\ sent = [t \in Threads |-> 0]
  /\ readlog = <<>>
  /\ wlog = <<>>
  /\ nintr = 0
  /\ ncalls = 0
  /\ closed = FALSE
  /\ stale = {}
  /\ blocks = {}
  /\ multi = FALSE

\* ------------------------------------------------------------- calls
\* Each file operation starts with down_interruptible(&mtx); a caller that
\* finds mtx taken sleeps without having changed anything, so the call and
\* the acquisition of mtx are one step, taken when mtx is free.
down_mtx ==
  /\ mtx > 0
  /\ mtx' = mtx - 1
  /\ ncalls < MaxCalls
  /\ ncalls' = ncalls + 1
  /\ UNCHANGED <<cbuffer, prod_count, cons_count, sem_prod, sem_cons,
                 nr_prod_waiting, nr_cons_waiting>>

\* open(): fifoproc_open up to its lock
CallOpen(t) ==
  /\ pc[t] = "idle" /\ ~f_open[t]
  /\ down_mtx
  /\ Goto(t, "open_inc")
  /\ op' = [op EXCEPT ![t] = "open"]
  /\ snap' = [snap EXCEPT ![t] = Snap(t, "open")]
  /\ UNCHANGED <<f_open, size, kbuffer, len, sent, readlog, wlog, nintr, closed, stale, blocks, multi>>

\* close(): fifoproc_release up to its lock; the file is gone whatever follows
CallRelease(t) ==
  /\ pc[t] = "idle" /\ f_open[t]
  /\ down_mtx
  /\ Goto(t, "rel_dec")
  /\ op' = [op EXCEPT ![t] = "release"]
  /\ f_open' = [f_open EXCEPT ![t] = FALSE]
  /\ closed' = TRUE
  /\ UNCHANGED <<size, kbuffer, len, snap, sent, readlog, wlog, nintr, stale, blocks, multi>>

\* read(fd, buf, n): fifoproc_read up to its lock
CallRead(t, n) ==
  /\ pc[t] = "idle" /\ f_open[t] /\ ~isProducer(t)
  /\ down_mtx
  /\ Goto(t, "read_loop")
  /\ op' = [op EXCEPT ![t] = "read"]
  /\ size' = [size EXCEPT ![t] = n]
  /\ snap' = [snap EXCEPT ![t] = Snap(t, "read")]
  /\ UNCHANGED <<f_open, kbuffer, len, sent, readlog, wlog, nintr, closed, stale, blocks, multi>>

\* write(fd, buf, n): fifoproc_write up to its lock: the size check passes,
\* copy_from_user fills kbuffer
CallWrite(t, n) ==
  /\ pc[t] = "idle" /\ f_open[t] /\ isProducer(t)
  /\ n <= MAX_KBUF
  /\ sent[t] + n <= MaxBytes
  /\ down_mtx
  /\ Goto(t, "write_loop")
  /\ op' = [op EXCEPT ![t] = "write"]
  /\ size' = [size EXCEPT ![t] = n]
  /\ kbuffer' = [kbuffer EXCEPT ![t] = [j \in 1 .. n |-> Byte(t, sent[t] + j)]]
  /\ sent' = [sent EXCEPT ![t] = sent[t] + n]
  /\ snap' = [snap EXCEPT ![t] = Snap(t, "write")]
  /\ blocks' = blocks \cup {kbuffer'[t]}
  /\ UNCHANGED <<f_open, len, readlog, wlog, nintr, closed, stale, multi>>

\* write with size > MAX_KBUF: -ENOMEM before anything else
WriteOversized(t, n) ==
  /\ pc[t] = "idle" /\ f_open[t] /\ isProducer(t)
  /\ n > MAX_KBUF
  /\ ncalls < MaxCalls
  /\ ncalls' = ncalls + 1
  /\ last' = [t |-> t, op |-> "write", ret |-> -ENOMEM, snap |-> 0]
  /\ UNCHANGED <<shared, pc, op, f_open, size, kbuffer, len, snap,
                 sent, readlog, wlog, nintr, closed, stale, blocks, multi>>

\* a call that sleeps on mtx at its head is interrupted: return -EINTR.
\* An interrupted release has closed the file without counting it out.
CallEintr(t, o) ==
  /\ pc[t] = "idle"
  /\ mtx = 0
  /\ nintr < MaxIntr
  /\ \/ o = "open" /\ ~f_open[t]
     \/ o = "release" /\ f_open[t]
     \/ o = "read" /\ f_open[t] /\ ~isProducer(t)
     \/ o = "write" /\ f_open[t] /\ isProducer(t)
  /\ f_open' = [f_open EXCEPT ![t] = f_open[t] /\ o # "release"]
  /\ nintr' = nintr + 1
  /\ ncalls < MaxCalls
  /\ ncalls' = ncalls + 1
  /\ closed' = (closed \/ o = "release")
  /\ last' = [t |-> t, op |-> o, ret |-> -EINTR,
               snap |-> IF o = "open" THEN Snap(t, o) ELSE 0]
  /\ UNCHANGED <<shared, pc, op, size, kbuffer, len, snap, sent, readlog, wlog, stale, blocks, multi>>

\* ------------------------------------------------------------- cond_signal
\* if (nr_X_waiting > 0) { nr_X_waiting--; up(&sem_X); } for the opposite role X:
\* in open, release, read (X = producers) and write (X = consumers)
sig_chk(t) ==
  /\ pc[t] = "sigchk"
  /\ Goto(t, IF Waiting(~isProducer(t)) > 0 THEN "sigdec" ELSE AfterSignal(t))
  /\ UNCHANGED <<shared, op, f_open, size, kbuffer, len, snap, ghost>>

sig_dec(t) ==
  /\ pc[t] = "sigdec"
  /\ SetWaiting(~isProducer(t), Waiting(~isProducer(t)) - 1)
  /\ Goto(t, "sigup")
  /\ UNCHANGED <<cbuffer, prod_count, cons_count, mtx, sem_prod, sem_cons,
                 op, f_open, size, kbuffer, len, snap, ghost>>

sig_up(t) ==
  /\ pc[t] = "sigup"
  /\ SetAux(~isProducer(t), Aux(~isProducer(t)) + 1)
  /\ Goto(t, AfterSignal(t))
  /\ UNCHANGED <<cbuffer, prod_count, cons_count, mtx,
                 nr_prod_waiting, nr_cons_waiting,
                 op, f_open, size, kbuffer, len, snap, ghost>>

\* ------------------------------------------------------------- cond_wait
\* nr_X_waiting++ for the caller's own role, inside the callers' while loops
wait_reg(t) ==
  /\ pc[t] = "reg"
  /\ SetWaiting(isProducer(t), Waiting(isProducer(t)) + 1)
  /\ Goto(t, "cw_up")
  /\ UNCHANGED <<cbuffer, prod_count, cons_count, mtx, sem_prod, sem_cons,
                 op, f_open, size, kbuffer, len, snap, ghost>>

\* up(&mtx)
cw_up(t) ==
  /\ pc[t] = "cw_up"
  /\ mtx' = mtx + 1
  /\ Goto(t, "cw_aux")
  /\ UNCHANGED <<cbuffer, prod_count, cons_count, sem_prod, sem_cons,
                 nr_prod_waiting, nr_cons_waiting,
                 op, f_open, size, kbuffer, len, snap, ghost>>

\* down_interruptible(aux) succeeds
cw_aux(t) ==
  /\ pc[t] = "cw_aux"
  /\ Aux(isProducer(t)) > 0
  /\ SetAux(isProducer(t), Aux(isProducer(t)) - 1)
  /\ Goto(t, "cw_mtx")
  /\ UNCHANGED <<cbuffer, prod_count, cons_count, mtx,
                 nr_prod_waiting, nr_cons_waiting,
                 op, f_open, size, kbuffer, len, snap, ghost>>

\* down_interruptible(aux) is interrupted while the thread sleeps
cw_aux_eintr(t) ==
  /\ pc[t] = "cw_aux"
  /\ Aux(isProducer(t)) = 0
  /\ nintr < MaxIntr
  /\ nintr' = nintr + 1
  /\ Goto(t, "cw_relock")
  /\ UNCHANGED <<shared, op, f_open, size, kbuffer, len, snap,
                 sent, readlog, wlog, ncalls, closed, stale, blocks, multi>>

\* if(down_interruptible(&mtx)); with the signal still pending: mtx is taken
\* when it is free, and the call fails at once, its result ignored, when not
cw_relock(t) ==
  /\ pc[t] = "cw_relock"
  /\ mtx' = IF mtx > 0 THEN mtx - 1 ELSE mtx
  /\ Goto(t, "cw_dec")
  /\ UNCHANGED <<cbuffer, prod_count, cons_count, sem_prod, sem_cons,
                 nr_prod_waiting, nr_cons_waiting,
                 op, f_open, size, kbuffer, len, snap, ghost>>

\* *counter = *counter - 1
cw_dec(t) ==
  /\ pc[t] = "cw_dec"
  /\ SetWaiting(isProducer(t), Waiting(isProducer(t)) - 1)
  /\ Goto(t, "cw_up2")
  /\ UNCHANGED <<cbuffer, prod_count, cons_count, mtx, sem_prod, sem_cons,
                 op, f_open, size, kbuffer, len, snap, ghost>>

\* up(&mtx); return -EINTR;  and the caller returns -EINTR in turn
cw_up2(t) ==
  /\ pc[t] = "cw_up2"
  /\ mtx' = mtx + 1
  /\ Return(t, -EINTR)
  /\ UNCHANGED <<cbuffer, prod_count, cons_count, sem_prod, sem_cons,
                 nr_prod_waiting, nr_cons_waiting,
                 f_open, ghost>>

\* if (down_interruptible(&mtx)) ... return 0: back at the caller's loop head
cw_mtx(t) ==
  /\ pc[t] = "cw_mtx"
  /\ mtx > 0
  /\ mtx' = mtx - 1
  /\ Goto(t, LoopPc(t))
  /\ UNCHANGED <<cbuffer, prod_count, cons_count, sem_prod, sem_cons,
                 nr_prod_waiting, nr_cons_waiting,
                 op, f_open, size, kbuffer, len, snap, ghost>>

\* if (down_interruptible(&mtx)) return -EINTR;  and the caller returns it
cw_mtx_eintr(t) ==
  /\ pc[t] = "cw_mtx"
  /\ mtx = 0
  /\ nintr < MaxIntr
  /\ nintr' = nintr + 1
  /\ Return(t, -EINTR)
  /\ UNCHANGED <<shared, f_open, sent, readlog, wlog, ncalls, closed, stale, blocks, multi>>

\* ------------------------------------------------------------- fifoproc_open
\* cons_count++ / prod_count++
open_inc(t) ==
  /\ pc[t] = "open_inc"
  /\ IF isProducer(t)
       THEN prod_count' = prod_count + 1 /\ UNCHANGED cons_count
       ELSE cons_count' = cons_count + 1 /\ UNCHANGED prod_count
  /\ multi' = (multi \/ prod_count' > 1 \/ cons_count' > 1)
  /\ Goto(t, "sigchk")
  /\ UNCHANGED <<cbuffer, mtx, sem_prod, sem_cons, nr_prod_waiting, nr_cons_waiting,
                 op, f_open, size, kbuffer, len, snap,
                 sent, readlog, wlog, nintr, ncalls, closed, stale, blocks>>

\* while (prod_count == 0) / while (cons_count == 0)
open_loop(t) ==
  /\ pc[t] = "open_loop"
  /\ Goto(t, IF (IF isProducer(t) THEN cons_count ELSE prod_count) = 0
               THEN "reg" ELSE "open_unlock")
  /\ UNCHANGED <<shared, op, f_open, size, kbuffer, len, snap, ghost>>

\* up(&mtx); return 0;
open_unlock(t) ==
  /\ pc[t] = "open_unlock"
  /\ mtx' = mtx + 1
  /\ f_open' = [f_open EXCEPT ![t] = TRUE]
  /\ Return(t, 0)
  /\ UNCHANGED <<cbuffer, prod_count, cons_count, sem_prod, sem_cons,
                 nr_prod_waiting, nr_cons_waiting, ghost>>

\* ------------------------------------------------------------- fifoproc_release
\* cons_count-- / prod_count--
rel_dec(t) ==
  /\ pc[t] = "rel_dec"
  /\ IF isProducer(t)
       THEN prod_count' = prod_count - 1 /\ UNCHANGED cons_count
       ELSE cons_count' = cons_count - 1 /\ UNCHANGED prod_count
  /\ snap' = [snap EXCEPT ![t] = IF prod_count' = 0 /\ cons_count' = 0 THEN 1 ELSE 0]
  /\ stale' = IF prod_count' = 0 /\ cons_count' = 0
                THEN stale \cup Range(Queued(cbuffer)) ELSE stale
  /\ Goto(t, "sigchk")
  /\ UNCHANGED <<cbuffer, mtx, sem_prod, sem_cons, nr_prod_waiting, nr_cons_waiting,
                 op, f_open, size, kbuffer, len,
                 sent, readlog, wlog, nintr, ncalls, closed, blocks, multi>>

\* if (prod_count == 0 && cons_count == 0)
rel_chkreset(t) ==
  /\ pc[t] = "rel_chkreset"
  /\ Goto(t, IF prod_count = 0 /\ cons_count = 0 THEN "rel_reset" ELSE "rel_unlock")
  /\ UNCHANGED <<shared, op, f_open, size, kbuffer, len, snap, ghost>>

\* kfifo_reset(&cbuffer)
rel_reset(t) ==
  /\ pc[t] = "rel_reset"
  /\ cbuffer' = kfifo_reset(cbuffer)
  /\ Goto(t, "rel_unlock")
  /\ UNCHANGED <<prod_count, cons_count, mtx, sem_prod, sem_cons,
                 nr_prod_waiting, nr_cons_waiting,
                 op, f_open, size, kbuffer, len, snap,
                 ghost>>

\* up(&mtx); return 0;
rel_unlock(t) ==
  /\ pc[t] = "rel_unlock"
  /\ mtx' = mtx + 1
  /\ Return(t, 0)
  /\ UNCHANGED <<cbuffer, prod_count, cons_count, sem_prod, sem_cons,
                 nr_prod_waiting, nr_cons_waiting,
                 f_open, ghost>>

\* ------------------------------------------------------------- fifoproc_read
\* while (kfifo_len(&cbuffer) == 0 && prod_count > 0)
read_loop(t) ==
  /\ pc[t] = "read_loop"
  /\ Goto(t, IF kfifo_len(cbuffer) = 0 /\ prod_count > 0 THEN "reg" ELSE "read_chkempty")
  /\ UNCHANGED <<shared, op, f_open, size, kbuffer, len, snap, ghost>>

\* if (kfifo_is_empty(&cbuffer))
read_chkempty(t) ==
  /\ pc[t] = "read_chkempty"
  /\ Goto(t, IF kfifo_is_empty(cbuffer) THEN "read_eof" ELSE "read_len")
  /\ UNCHANGED <<shared, op, f_open, size, kbuffer, len, snap, ghost>>

\* up(&mtx); return 0;
read_eof(t) ==
  /\ pc[t] = "read_eof"
  /\ mtx' = mtx + 1
  /\ Return(t, 0)
  /\ UNCHANGED <<cbuffer, prod_count, cons_count, sem_prod, sem_cons,
                 nr_prod_waiting, nr_cons_waiting,
                 f_open, ghost>>

\* len = (size >= kfifo_len(&cbuffer)) ? kfifo_len(&cbuffer) : size;
read_len(t) ==
  /\ pc[t] = "read_len"
  /\ len' = [len EXCEPT ![t] = IF size[t] >= kfifo_len(cbuffer)
                                 THEN kfifo_len(cbuffer) ELSE size[t]]
  /\ Goto(t, "read_out")
  /\ UNCHANGED <<shared, op, f_open, size, kbuffer, snap, ghost>>

\* len = kfifo_out(&cbuffer, kbuffer, len): clamp and copy ...
read_out(t) ==
  /\ pc[t] = "read_out"
  /\ len' = [len EXCEPT ![t] = kfifo_out_len(cbuffer, len[t])]
  /\ kbuffer' = [kbuffer EXCEPT ![t] = kfifo_copy_out(cbuffer, len'[t])]
  /\ Goto(t, "read_out2")
  /\ UNCHANGED <<shared, op, f_open, size, snap, ghost>>

\* a read that skips its cond_signal (a fault the wake-up claim must catch)
read_out2_mut(t) ==
  /\ pc[t] = "read_out2"
  /\ cbuffer' = kfifo_add_out(cbuffer, len[t])
  /\ Goto(t, "read_unlock")
  /\ UNCHANGED <<prod_count, cons_count, mtx, sem_prod, sem_cons,
                 nr_prod_waiting, nr_cons_waiting,
                 op, f_open, size, kbuffer, len, snap, ghost>>

\* ... then fifo->out += len
read_out2(t) ==
  /\ pc[t] = "read_out2"
  /\ cbuffer' = kfifo_add_out(cbuffer, len[t])
  /\ Goto(t, "sigchk")
  /\ UNCHANGED <<prod_count, cons_count, mtx, sem_prod, sem_cons,
                 nr_prod_waiting, nr_cons_waiting,
                 op, f_open, size, kbuffer, len, snap, ghost>>

\* up(&mtx); copy_to_user(buff, kbuffer, len); return len;
read_unlock(t) ==
  /\ pc[t] = "read_unlock"
  /\ mtx' = mtx + 1
  /\ Return(t, len[t])
  /\ readlog' = readlog \o kbuffer[t]
  /\ UNCHANGED <<cbuffer, prod_count, cons_count, sem_prod, sem_cons,
                 nr_prod_waiting, nr_cons_waiting,
                 f_open, sent, wlog, nintr, ncalls, closed, stale, blocks, multi>>

\* ------------------------------------------------------------- fifoproc_write
\* while (kfifo_avail(&cbuffer) < size && cons_count > 0)
write_loop(t) ==
  /\ pc[t] = "write_loop"
  /\ Goto(t, IF kfifo_avail(cbuffer) < size[t] /\ cons_count > 0 THEN "reg" ELSE "write_in")
  /\ UNCHANGED <<shared, op, f_open, size, kbuffer, len, snap, ghost>>

\* kfifo_in(&cbuffer, kbuffer, size): clamp and copy ...
write_in(t) ==
  /\ pc[t] = "write_in"
  /\ len' = [len EXCEPT ![t] = kfifo_in_len(cbuffer, size[t])]
  /\ cbuffer' = kfifo_copy_in(cbuffer, kbuffer[t], len'[t])
  /\ Goto(t, "write_in2")
  /\ UNCHANGED <<prod_count, cons_count, mtx, sem_prod, sem_cons,
                 nr_prod_waiting, nr_cons_waiting,
                 op, f_open, size, kbuffer, snap, ghost>>

\* ... then fifo->in += len
write_in2(t) ==
  /\ pc[t] = "write_in2"
  /\ cbuffer' = kfifo_add_in(cbuffer, len[t])
  /\ Goto(t, "write_chkpipe")
  /\ UNCHANGED <<prod_count, cons_count, mtx, sem_prod, sem_cons,
                 nr_prod_waiting, nr_cons_waiting,
                 op, f_open, size, kbuffer, len, snap, ghost>>

\* if (cons_count == 0)
write_chkpipe(t) ==
  /\ pc[t] = "write_chkpipe"
  /\ Goto(t, IF cons_count = 0 THEN "write_epipe" ELSE "sigchk")
  /\ UNCHANGED <<shared, op, f_open, size, kbuffer, len, snap, ghost>>

\* up(&mtx); return -EPIPE;
write_epipe(t) ==
  /\ pc[t] = "write_epipe"
  /\ mtx' = mtx + 1
  /\ Return(t, -EPIPE)
  /\ UNCHANGED <<cbuffer, prod_count, cons_count, sem_prod, sem_cons,
                 nr_prod_waiting, nr_cons_waiting,
                 f_open, ghost>>

\* up(&mtx); return size;
write_unlock(t) ==
  /\ pc[t] = "write_unlock"
  /\ mtx' = mtx + 1
  /\ Return(t, size[t])
  /\ wlog' = wlog \o kbuffer[t]
  /\ UNCHANGED <<cbuffer, prod_count, cons_count, sem_prod, sem_cons,
                 nr_prod_waiting, nr_cons_waiting,
                 f_open, sent, readlog, nintr, ncalls, closed, stale, blocks, multi>>

\* ------------------------------------------------------------- specification
\* the steps of the driver's code
Run(t) ==
  \/ sig_chk(t) \/ sig_dec(t) \/ sig_up(t)
  \/ wait_reg(t) \/ cw_up(t) \/ cw_aux(t) \/ cw_mtx(t)
  \/ open_inc(t) \/ open_loop(t) \/ open_unlock(t)
  \/ rel_dec(t) \/ rel_chkreset(t) \/ rel_reset(t) \/ rel_unlock(t)
  \/ read_loop(t) \/ read_chkempty(t) \/ read_eof(t) \/ read_len(t)
  \/ read_out(t) \/ read_out2(t) \/ read_unlock(t)
  \/ write_loop(t) \/ write_in(t) \/ write_in2(t) \/ write_chkpipe(t)
  \/ write_epipe(t) \/ write_unlock(t)

\* what user space does
Call(t) ==
  \/ CallOpen(t)
  \/ CallRelease(t)
  \/ \E n \in 1 .. MAX_CBUFFER_LEN : CallRead(t, n)
  \/ \E n \in 1 .. MAX_KBUF : CallWrite(t, n)
  \/ WriteOversized(t, MAX_KBUF + 1)

\* a signal reaches a sleeping thread, and cond_wait's path for it
Eintr(t) ==
  \/ \E o \in {"open", "release", "read", "write"} : CallEintr(t, o)
  \/ cw_aux_eintr(t)
  \/ cw_mtx_eintr(t)
  \/ cw_relock(t) \/ cw_dec(t) \/ cw_up2(t)

Next == \E t \in Threads : Call(t) \/ Run(t) \/ Eintr(t)

Spec == Init /\ [][Next]_vars

\* no signal is ever delivered
NextNoIntr == \E t \in Threads : Call(t) \/ Run(t)

SpecNoIntr == Init /\ [][NextNoIntr]_vars

\* ... and a thread inside the driver keeps running while it can
FairSpec == SpecNoIntr /\ \A t \in Threads : WF_vars(Run(t))

\* ------------------------------------------------------------- claims
IsPrefix(a, b) == Len(a) <= Len(b) /\ \A j \in 1 .. Len(a) : a[j] = b[j]

\* no thread is inside the driver
Quiescent == \A t \in Threads : pc[t] = "idle"

\* C1: in every reachable state the buffer length is between 0 and the
\* capacity.  (The length is the unsigned difference of the two indices, so a
\* negative length shows as one above the capacity.)
C1_LengthBounded == kfifo_len(cbuffer) \in 0 .. MAX_CBUFFER_LEN

\* C2: at every point the bytes returned by reads are at most the bytes of
\* the writes that returned success; a write that returned -EPIPE, -ENOMEM or
\* -EINTR adds nothing to the latter.
C2_ReadAtMostWritten == Len(readlog) <= Len(wlog)

\* Exactly one producer and one consumer session, open throughout: nothing
\* was ever closed and each count has been raised at most once.
Spsc == ~closed /\ prod_count <= 1 /\ cons_count <= 1

\* the bytes of the write in progress (with Spsc there is at most one)
InFlight == IF op["p1"] = "write" THEN kbuffer["p1"]
            ELSE IF op["p2"] = "write" THEN kbuffer["p2"] ELSE <<>>

C4_ResetOnDrain ==
  /\ (last.op = "release" /\ last.ret = 0 /\ last.snap = 1 => kfifo_len(cbuffer) = 0)
  /\ (prod_count = 0 /\ cons_count = 0 /\ Quiescent => kfifo_len(cbuffer) = 0)
  /\ Range(readlog) \cap stale = {}

\* the statements of cond_wait, from the caller's nr_X_waiting++ on
WaitPcs == {"reg", "cw_up", "cw_aux", "cw_mtx", "cw_relock", "cw_dec", "cw_up2"}

\* C5: an open of the consumer that returns -EINTR leaves cons_count at the
\* value it had when the call was made (the model has one consumer thread, so
\* nobody else changes cons_count meanwhile).
C5_CancelledOpenUnwinds ==
  last.op = "open" /\ last.ret = -EINTR /\ last.t \in Consumers
    => cons_count = last.snap

BlockedInOpen(t) == op[t] = "open" /\ pc[t] \in WaitPcs
OppositeOpen(t) == \E u \in Threads : isProducer(u) # isProducer(t) /\ f_open[u]

\* C6: without signals and under weak fairness, a thread blocked in open while
\* a session of the opposite role is open eventually returns 0 from open,
\* unless the opposite role's sessions are all closed first; for every thread.
C6_BlockedOpenReturns ==
  \A t \in Threads :
    (BlockedInOpen(t) /\ OppositeOpen(t))
      ~> ((last.t = t /\ last.op = "open" /\ last.ret = 0) \/ ~OppositeOpen(t))

\* the bytes the reader has removed from the buffer and not yet returned
Popped ==
  IF op["c1"] = "read" /\ pc["c1"] \in {"sigchk", "sigdec", "sigup", "read_unlock"}
  THEN kbuffer["c1"] ELSE <<>>

\* every byte that has entered the buffer, in the order of leaving it
Stream == readlog \o Popped \o Queued(cbuffer)

Contains(s, b) == \E i \in 0 .. Len(s) - Len(b) : \A j \in 1 .. Len(b) : s[i + j] = b[j]

\* one producer and one consumer, and never more than one of either
OneEach == prod_count = 1 /\ cons_count = 1 /\ ~multi

\* a write of t that is waiting for space, or about to test for it
WriteWaiting(t) == op[t] = "write" /\ pc[t] \in WaitPcs \cup {"write_loop"}

\* C7, safety half: a write that waits has put none of its bytes in the buffer,
\* a write copies into the buffer only when its size fits (or no consumer is
\* left), and a write that returns its size has all its bytes in the stream as
\* one block.
C7_Safe ==
  /\ \A t \in Producers :
       /\ WriteWaiting(t) => Range(kbuffer[t]) \cap Range(Stream) = {}
       /\ pc[t] = "write_in" /\ cons_count > 0 => kfifo_avail(cbuffer) >= size[t]
  /\ last.op = "write" /\ last.ret > 0
       => /\ last.ret <= Len(wlog)
          /\ Contains(Stream, SubSeq(wlog, Len(wlog) - last.ret + 1, Len(wlog)))

\* C7: (without signals, under weak fairness) the safety half always holds, and
\* a write of n bytes that waits with one producer and one consumer open, once
\* the buffer has room for n bytes, returns n, unless a session is opened or
\* closed first.
C7_BlockedWriteCompletes ==
  /\ []C7_Safe
  /\ \A t \in Producers : \A n \in 1 .. MAX_KBUF :
       (op[t] = "write" /\ pc[t] \in WaitPcs /\ size[t] = n
          /\ OneEach /\ kfifo_avail(cbuffer) >= n)
         ~> ((last.t = t /\ last.op = "write" /\ last.ret = n) \/ ~OneEach)

C7_Witness ==
  /\ op["p1"] = "write" /\ pc["p1"] = "cw_aux" /\ size["p1"] = 2
  /\ OneEach /\ kfifo_avail(cbuffer) >= 2 /\ sem_prod > 0

\* C8: while the consumer has the device open and no file has been closed
\* (producers open or not): each write's bytes are in the stream as one
\* contiguous block or not at all; the bytes of one producer are in the stream in
\* the order they were passed to write, each once; and when no call is in
\* progress and the buffer is empty, the reads have returned as many bytes as
\* the writes that returned their size had.
C8_WritesAtomic ==
  ~closed /\ f_open["c1"] =>
    /\ \A b \in blocks : Range(b) \cap Range(Stream) = {} \/ Contains(Stream, b)
    /\ \A i, j \in 1 .. Len(Stream) :
         i < j /\ (Stream[i] < 20 <=> Stream[j] < 20) => Stream[i] < Stream[j]
    /\ Quiescent /\ kfifo_is_empty(cbuffer) => Len(readlog) = Len(wlog)

\* C9: a read that took mtx with the buffer empty and prod_count = 0 is never in
\* cond_wait and returns 0; and a read returns 0 only with the buffer empty and
\* prod_count = 0.
C9_ReadEof ==
  /\ \A t \in Consumers : op[t] = "read" /\ snap[t] = 1 => pc[t] \notin WaitPcs
  /\ last.op = "read" /\ last.snap = 1 => last.ret = 0
  /\ last.op = "read" /\ last.ret = 0 => kfifo_is_empty(cbuffer) /\ prod_count = 0

\* C10: a write that took mtx with cons_count = 0 is never in cond_wait and
\* returns -EPIPE.  (That -EPIPE is returned only after the test cons_count == 0
\* succeeded is how write_chkpipe reaches write_epipe.)
C10_WriteBrokenPipe ==
  /\ \A t \in Producers : op[t] = "write" /\ snap[t] = 1 => pc[t] \notin WaitPcs
  /\ last.op = "write" /\ last.snap = 1 => last.ret = -EPIPE

\* C11, second half: a write of MAX_KBUF bytes that took mtx with the buffer empty
\* and cons_count > 0 is never in cond_wait, does not take the -EPIPE exit, and
\* has all its bytes in the stream as one block when it is about to return.
C11_FullWrite ==
  \A t \in Producers :
    op[t] = "write" /\ snap[t] = 2 /\ size[t] = MAX_KBUF
      => /\ pc[t] \notin WaitPcs \cup {"write_epipe"}
         /\ pc[t] = "write_unlock" => Contains(Stream, kbuffer[t])

\* C11: a step in which a write returns -ENOMEM changes neither mtx nor the
\* buffer, the session counts, the waiting counts or the wait semaphores; and
\* the second half always holds.
C11_OversizedWrite ==
  /\ [][last'.op = "write" /\ last'.ret = -ENOMEM => UNCHANGED shared]_vars
  /\ []C11_FullWrite

\* the threads of a role
Role(prod) == IF prod THEN Producers ELSE Consumers

\* the threads of a role that have run nr_X_waiting++ and have neither passed
\* their semaphore nor run the cancellation path's *counter - 1
Registered(prod) ==
  {u \in Role(prod) : pc[u] \in {"cw_up", "cw_aux", "cw_relock", "cw_dec"}}

\* the wake-ups of a role under way: a cond_signal between its nr_X_waiting--
\* and its up(&sem_X), and the permits on sem_X nobody has taken yet
Signalled(prod) ==
  Cardinality({u \in Role(~prod) : pc[u] = "sigup"}) + Aux(prod)

\* the number of registered threads of a role that no wake-up under way is for
Unsignalled(prod) ==
  IF Signalled(prod) >= Cardinality(Registered(prod)) THEN 0
  ELSE Cardinality(Registered(prod)) - Signalled(prod)

\* C12, state half: when a read or write has just returned -EINTR, the waiting
\* count of the caller's role is the number of that role's registered threads
\* that no wake-up under way is for (the caller not among them); and a write
\* that is in cond_wait has none of its bytes in the buffer.
C12_Unwound ==
  /\ last.op \in {"read", "write"} /\ last.ret = -EINTR
       => Waiting(isProducer(last.t)) = Unsignalled(isProducer(last.t))
  /\ \A t \in Producers :
       WriteWaiting(t) => Range(kbuffer[t]) \cap Range(Stream) = {}

\* C12: a step in which a read or write returns -EINTR changes neither the
\* buffer nor prod_count nor cons_count; and the state half always holds.
C12_InterruptedNoEffect ==
  /\ [][last'.op \in {"read", "write"} /\ last'.ret = -EINTR
          => UNCHANGED <<cbuffer, prod_count, cons_count>>]_vars
  /\ []C12_Unwound

\* the statements a thread executes between a down_interruptible(&mtx) and the
\* next up(&mtx) of its path, lines 49-50 of cond_wait's cancellation included:
\* where the code reads or writes shared state, or is about to release mtx
LockedPcs ==
  {"open_inc", "open_loop", "open_unlock", "sigchk", "sigdec", "sigup", "reg", "cw_up",
   "cw_dec", "cw_up2",
   "rel_dec", "rel_chkreset", "rel_reset", "rel_unlock",
   "read_loop", "read_chkempty", "read_eof", "read_len", "read_out", "read_out2",
   "read_unlock",
   "write_loop", "write_in", "write_in2", "write_chkpipe", "write_epipe", "write_unlock"}

Holders == {t \in Threads : pc[t] \in LockedPcs}

\* C13: mtx is 0 or 1, at most one thread is at a statement that accesses the
\* shared state or releases mtx, and mtx is 0 exactly when there is one.
C13_MutualExclusion ==
  /\ mtx \in 0 .. 1
  /\ Cardinality(Holders) <= 1
  /\ mtx + Cardinality(Holders) = 1

\* C14: each waiting count is >= 0 and is the number of registered threads of
\* its role that no wake-up under way is for.
C14_WaitingCounts ==
  \A prod \in BOOLEAN :
    Waiting(prod) >= 0 /\ Waiting(prod) = Unsignalled(prod)

\* the threads of a role inside cond_wait that have not passed their semaphore
InWait(prod) == {u \in Role(prod) : pc[u] \in {"cw_up", "cw_aux"}}

\* C15: the permits on a role's semaphore are at most as many as the threads of
\* that role inside cond_wait that have not passed it (so there is no permit
\* when there is no such thread), and the permits and the threads still counted
\* as waiting are together at most as many as the registered threads.
C15_NoPhantomPermits ==
  \A prod \in BOOLEAN :
    /\ Aux(prod) <= Cardinality(InWait(prod))
    /\ Waiting(prod) >= 0 => Aux(prod) + Waiting(prod) <= Cardinality(Registered(prod))

\* the last statements of cond_wait's paths: line 54 and lines 50-51
WaitExitPcs == {"cw_mtx", "cw_up2"}

\* C16: every step that takes a thread out of cond_wait leaves it at the head
\* of its caller's while loop, inside the critical section, and is not a step
\* that releases mtx.
C16_WaitReturnsLocked ==
  [][\A t \in Threads :
       pc[t] \in WaitExitPcs /\ pc'[t] # pc[t]
         => pc'[t] \in {"open_loop", "read_loop", "write_loop"} /\ mtx' <= mtx]_vars

\* C17: when no thread is at a statement of a critical section mtx is not
\* taken, and when no call is in progress every acquisition of mtx has been
\* matched by exactly one release: mtx = 1.
C17_LockReleased ==
  /\ Holders = {} => mtx >= 1
  /\ Quiescent => mtx = 1

\* C18: whenever a write is about to call kfifo_in, the size it passes is at
\* most the free space of the buffer.
C18_PushFits ==
  \A t \in Producers : pc[t] = "write_in" => size[t] <= kfifo_avail(cbuffer)

\* C19: (without signals, under weak fairness) a producer that is in cond_wait
\* inside write while cons_count is 0 eventually returns -EPIPE from that write,
\* unless a consumer opens first; and a consumer that is in cond_wait inside read
\* while prod_count is 0 and the buffer is empty eventually returns 0 from that
\* read, unless a producer opens first.
C19_NoLostWakeup ==
  /\ \A t \in Producers :
       (op[t] = "write" /\ pc[t] \in WaitPcs /\ cons_count = 0)
         ~> ((last.t = t /\ last.op = "write" /\ last.ret = -EPIPE) \/ cons_count > 0)
  /\ \A t \in Consumers :
       (op[t] = "read" /\ pc[t] \in WaitPcs /\ prod_count = 0 /\ kfifo_is_empty(cbuffer))
         ~> ((last.t = t /\ last.op = "read" /\ last.ret = 0) \/ prod_count > 0)

====
